---- MODULE Spec2Model ----
(***************************************************************************)
(* Model of the mycoria link layer (src/peering/link.go) and of the        *)
(* ping/pong handler (src/router/ping_pong.go).                            *)
(*                                                                         *)
(* A link is a connection object with two bounded send queues, a setup     *)
(* task, a reader and a writer goroutine and an idempotent Close.  Every   *)
(* goroutine is a program counter; every blocking or atomic operation of   *)
(* the source (a channel operation, a compare-and-swap, a call made under  *)
(* a mutex, one stream read or write) is one action.                       *)
(***************************************************************************)
EXTENDS Integers, Sequences, FiniteSets

(***************************************************************************)
(* Bounds of the model.                                                    *)
(***************************************************************************)
\* Number of peer identities a handshake may yield.
NumPeers == 3
\* Switch labels are 1..MaxLabel; 0 is "no label".
MaxLabel == 2
\* Frames handed to Send / SendPriority are numbered 1..MaxFrames.
MaxFrames == 3
\* Capacity of sendQueuePrio in the model (link.go:107 makes it 100).
PrioQueueCap == 1
\* Capacity of sendQueueRegl in the model (link.go:108 makes it 1000).
ReglQueueCap == 2
\* Capacity of the upstream frame handler channel in the model.
UpstreamCap == 1
\* External Close calls issued on one link.
MaxExtCloses == 1
\* The consecutive-error counters are explored for runs of at most this
\* length from their initial value.
MaxErrRun == 1

\* FlowControlIndicator is tried on queues of capacity 1..MaxFlowCap (and on
\* the capacity newLinkBase gives the regular queue).
MaxFlowCap == 12
\* Priority frames queued while FlowControlIndicator is tried.
MaxPrioFill == 2

\* Records on the wire readLengthAndData is followed on.
MaxRecords == 2
\* The largest length a record on the wire announces.
MaxRecLen == 8
\* link.frameSize, the length of the slice readFrame reads into
\* (link.go:369); set per link.
frameSize == 6

\* Ping requests sent.
MaxPings == 2
\* The clock stops at MaxTime seconds.
MaxTime == 45

(***************************************************************************)
(* Program constants.                                                      *)
(***************************************************************************)
\* link.go:275 and link.go:347: close after this many consecutive errors.
MaxConsecutiveErrors == 100
\* link.go:108: sendQueueRegl: make(chan frame.Frame, 1000)
ReglQueueSize == 1000
\* link.go:572: for i := 1; i <= 3; i++
MaxSetupMsgs == 3
\* ping_pong.go:51: 30 * time.Second, in seconds.
PingExpiry == 30

\* The link objects: two, for the claims about concurrent setups.
Links == {1, 2}
Peers == 1..NumPeers
Labels == 1..MaxLabel
Frames == 1..MaxFrames
\* The link and the frames of the single-link specifications.
LifeLinks == {1}
LifeFrames == {1}
\* Ping ids (and the ping states made for them).
PingIDs == 1..MaxPings
\* Goroutines that run PingPongHandler.Handle: two, so that Handle calls overlap.
Handlers == {1, 2}
\* Payloads of a response frame: {msg:"pong"}, {msg:"ping"}, undecodable bytes.
Msgs == {"pong", "ping", "garbage"}
\* The amounts by which the model lets time advance.
TickSteps == {PingExpiry \div 2}
\* The capacities of the regular queue FlowControlIndicator is tried on.
FlowCaps == (1..MaxFlowCap) \cup {ReglQueueSize}
\* The lengths the two length bytes of a record announce.
RecLens == 0..MaxRecLen
\* The goroutines that call Close on a link.
Callers == {"setup", "reader", "writer", "ext"}

VARIABLES
    \* ---- per link: setup task (setupWorker / handleSetup)
    spc,          \* program counter of the setup task
    setupI,       \* loop variable i of handleSetupMessages
    setupErr,     \* why setup failed ("none" while it has not)
    handleRes,    \* what state.handle returned for setup message i: "done" (nil, nil),
                  \* "response" (f, nil), "error" (_, err); "none": not handled yet
    encSession,   \* link.encSession # nil
    peer,         \* link.peer (0: not set)
    switchLabel,  \* link.switchLabel (0: not set)
    \* ---- per link: Close
    closing,      \* link.closing
    cpc,          \* [link][caller]: position of that caller inside Close
    clog,         \* [link][caller]: the log argument of that call is non-nil
    logRuns,      \* number of log callbacks run
    removeCalls,  \* number of RemoveLink calls made by Close
    connCloses,   \* number of conn.Close calls
    extCloses,    \* number of external Close calls issued
    casWinner,    \* the log argument of the call that won the compare-and-swap
    \* ---- the peering registry
    links,        \* peer IP -> link (0: none)
    linksByLabel, \* switch label -> link (0: none)
    \* ---- per link: reader goroutine
    rpc,          \* program counter of the reader
    rerr,         \* the reader's consecutiveErrors
    \* ---- per link: writer goroutine
    wpc,          \* program counter of the writer
    wf,           \* the frame the writer holds (0: none)
    werr,         \* the writer's consecutiveErrors
    overtaken,    \* regular frames the writer took while a priority frame was
                  \* waiting, since it last took a priority frame
    \* ---- per link: send queues
    sendQueuePrio,
    sendQueueRegl,
    nextFrame,    \* the next frame a caller hands to Send / SendPriority
    sendRet,      \* what the last Send / SendPriority call returned
    pooled,       \* [frame]: how often f.ReturnToPool() ran for the frame
    \* ---- shared
    upstream,     \* the frame handler channel (holds the receiving link of each frame)
    mgrDone,      \* the worker context's Done channel is closed
    \* ---- the ping/pong handler
    clock,        \* time.Now(), in seconds
    nextPingID,   \* the next id newPingID returns
    pst,          \* [ping id]: how far the Send call that drew the id has come
    active,       \* h.active: ping id -> ping state (0: no entry)
    expires,      \* [ping state]: pongState.expires
    notifyCloses, \* [ping state]: number of close(pingState.notify) executed
    hpc,          \* [handler]: position inside handleResponse
    hid,          \* [handler]: hdr.PingID of the frame it handles
    hmsg,         \* [handler]: the payload of the frame it handles
    hstate,       \* [handler]: the ping state pluckActive returned (0: nil)
    firstResp,    \* [ping id]: the first response to the transmitted ping that Handle
                  \* took up: "pong" (a valid pong, before the expiry), "other" or "none"
    \* ---- FlowControlIndicator on a link with queues of full size
    fcRegl,       \* len(link.sendQueueRegl)
    fcPrio,       \* len(link.sendQueuePrio)
    fcCap,        \* cap(link.sendQueueRegl)
    fcRet,        \* what FlowControlIndicator returned for these queues ("none": not called)
    \* ---- readLengthAndData on the byte stream of a connection
    wire,         \* the records the peer wrote, each by the length it announces
    rdPos,        \* bytes of the stream consumed by conn.Read so far
    rdRead,       \* the local "read" of the current (or last) call
    rdLen,        \* the local "dataLen" of the current (or last) call; 0: not yet decoded
    rdPc,         \* "idle", or the loop the call is in: "length", "drain", "data"
    rdRet         \* what the last call returned: "none", "ok", "invalid data length",
                  \* "frame too big", "neterr"

setupVars == <<spc, setupI, setupErr, handleRes, encSession, peer, switchLabel>>
closeVars == <<closing, cpc, clog, logRuns, removeCalls, connCloses, extCloses, casWinner>>
regVars == <<links, linksByLabel>>
readerVars == <<rpc, rerr>>
writerVars == <<wpc, wf, werr, overtaken>>
queueVars == <<sendQueuePrio, sendQueueRegl, nextFrame, sendRet, pooled>>
envVars == <<upstream, mgrDone>>

pingVars == <<clock, nextPingID, pst, active, expires, notifyCloses,
              hpc, hid, hmsg, hstate, firstResp>>

linkVars == <<setupVars, closeVars, regVars, readerVars, writerVars, queueVars, envVars>>

flowVars == <<fcRegl, fcPrio, fcCap, fcRet>>

\* What the steps of a link, of the ping/pong handler, of the flow control
\* indicator and of readLengthAndData leave alone.
streamVars == <<wire, rdPos, rdRead, rdLen, rdPc, rdRet>>

nonLinkVars == <<pingVars, flowVars, streamVars>>
nonPingVars == <<linkVars, flowVars, streamVars>>
nonFlowVars == <<linkVars, pingVars, streamVars>>
nonStreamVars == <<linkVars, pingVars, flowVars>>

Upd(f, l, v) == [f EXCEPT ![l] = v]

(***************************************************************************)
(* The peering registry.  Its code (Peering.AddLink, RemoveLink,           *)
(* GetLinkByLabel) is not part of the source files modelled here; it is    *)
(* modelled from the specification: two maps, peer IP -> link and switch   *)
(* label -> link, each operation atomic under the registry lock.           *)
(***************************************************************************)
\* lookup_by_label: the plain map read.
GetLinkByLabel(label) == linksByLabel[label]

\* lookup_by_peer: the plain map read.
GetLink(p) == links[p]

\* add_link fails if a link already exists for the same peer IP or label.
AddLinkOK(l) ==
    /\ peer[l] \in Peers => links[peer[l]] = 0
    /\ switchLabel[l] \in Labels => linksByLabel[switchLabel[l]] = 0

\* add_link inserts the link into both maps.
AddLink(l) ==
    /\ links' = [p \in Peers |-> IF p = peer[l] THEN l ELSE links[p]]
    /\ linksByLabel' = [b \in Labels |-> IF b = switchLabel[l] THEN l ELSE linksByLabel[b]]

\* remove_link removes the link from both maps; idempotent.
RemoveLink(l) ==
    /\ links' = [p \in Peers |-> IF links[p] = l THEN 0 ELSE links[p]]
    /\ linksByLabel' = [b \in Labels |-> IF linksByLabel[b] = l THEN 0 ELSE linksByLabel[b]]

\* The link is held by the registry.
Registered(l) == (\E p \in Peers : links[p] = l) \/ (\E b \in Labels : linksByLabel[b] = l)

(***************************************************************************)
(* Package m (not part of the source files modelled here).                 *)
(***************************************************************************)
\* m.DeriveSwitchLabelFromIP: a fixed function of the peer IP; 0 stands for
\* "not ok or zero".  Peers 1 and 3 derive the same label.
DeriveSwitchLabelFromIP(p) == p % 2

\* m.RoutingAddressPrefix.Contains(peer)
RoutingAddressPrefixContains(p) == p >= 2

\* The labels m.GetRandomSwitchLabel(true) can return.
ShortLabels == {1}

(***************************************************************************)
(* Close (link.go:207-221).  The call is four steps: the compare-and-swap  *)
(* on link.closing, the log callback, RemoveLink, conn.Close.              *)
(***************************************************************************)
\* A goroutine calls link.Close(log); hasLog: log # nil.
CallClose(l, g, hasLog) ==
    /\ cpc' = [cpc EXCEPT ![l][g] = "cas"]
    /\ clog' = [clog EXCEPT ![l][g] = hasLog]

\* Where Close goes after a successful compare-and-swap: "if log != nil".
AfterCAS(hasLog) == IF hasLog THEN "log" ELSE "remove"

\* A faulty Close: the flag is stored without being compared.
CompareAndSwap_storeOnly(cur) == [swapped |-> TRUE, val |-> TRUE]

\* link.closing.CompareAndSwap(false, true): the value stored and whether it swapped.
CompareAndSwap(cur) == [swapped |-> cur = FALSE, val |-> TRUE]

Close_CAS(l, g) ==
    /\ cpc[l][g] = "cas"
    /\ LET r == CompareAndSwap(closing[l]) IN
        /\ closing' = Upd(closing, l, IF r.swapped THEN r.val ELSE closing[l])
        /\ cpc' = [cpc EXCEPT ![l][g] = IF r.swapped THEN AfterCAS(clog[l][g]) ELSE "idle"]
        /\ casWinner' = IF r.swapped
                        THEN Upd(casWinner, l, IF clog[l][g] THEN "func" ELSE "nil")
                        ELSE casWinner
    /\ UNCHANGED <<clog, logRuns, removeCalls, connCloses, extCloses>>
    /\ UNCHANGED <<setupVars, regVars, readerVars, writerVars, queueVars, envVars>>
    /\ UNCHANGED nonLinkVars

Close_log(l, g) ==
    /\ cpc[l][g] = "log"
    /\ logRuns' = Upd(logRuns, l, logRuns[l] + 1)
    /\ cpc' = [cpc EXCEPT ![l][g] = "remove"]
    /\ UNCHANGED <<closing, clog, removeCalls, connCloses, extCloses, casWinner>>
    /\ UNCHANGED <<setupVars, regVars, readerVars, writerVars, queueVars, envVars>>
    /\ UNCHANGED nonLinkVars

Close_RemoveLink(l, g) ==
    /\ cpc[l][g] = "remove"
    /\ RemoveLink(l)
    /\ removeCalls' = Upd(removeCalls, l, removeCalls[l] + 1)
    /\ cpc' = [cpc EXCEPT ![l][g] = "conn"]
    /\ UNCHANGED <<closing, clog, logRuns, connCloses, extCloses, casWinner>>
    /\ UNCHANGED <<setupVars, readerVars, writerVars, queueVars, envVars>>
    /\ UNCHANGED nonLinkVars

Close_connClose(l, g) ==
    /\ cpc[l][g] = "conn"
    /\ connCloses' = Upd(connCloses, l, connCloses[l] + 1)
    /\ cpc' = [cpc EXCEPT ![l][g] = "idle"]
    /\ UNCHANGED <<closing, clog, logRuns, removeCalls, extCloses, casWinner>>
    /\ UNCHANGED <<setupVars, regVars, readerVars, writerVars, queueVars, envVars>>
    /\ UNCHANGED nonLinkVars

\* The link has been handed out: AddLink succeeded, so other goroutines can
\* hold it (from a registry lookup or as a frame's receiving link).
Published(l) == spc[l] \in {"start", "done_ok"}

\* An external caller calls Close; the Link interface allows a nil log.
ExtClose(l, hasLog) ==
    /\ Published(l)
    /\ cpc[l]["ext"] = "idle"
    /\ extCloses[l] < MaxExtCloses
    /\ extCloses' = Upd(extCloses, l, extCloses[l] + 1)
    /\ CallClose(l, "ext", hasLog)
    /\ UNCHANGED <<closing, logRuns, removeCalls, connCloses, casWinner>>
    /\ UNCHANGED <<setupVars, regVars, readerVars, writerVars, queueVars, envVars>>
    /\ UNCHANGED nonLinkVars

(***************************************************************************)
(* Link setup: handleSetupMessages (link.go:558-600), assignSwitchLabel    *)
(* (link.go:602-631), setupWorker (link.go:492-527) and handleSetup        *)
(* (link.go:529-556).  The results of stream reads and writes, of the      *)
(* handshake state machine and of finalize are chosen by the environment.  *)
(***************************************************************************)
\* Setup stops with an error; the caller (setupWorker / handleSetup) sees err # nil.
SetupFails(l, why) ==
    /\ spc' = Upd(spc, l, "failed")
    /\ setupErr' = Upd(setupErr, l, why)

\* createPeeringRequest and the write of the initial request (link.go:562-569).
handleSetupMessages_init(l) ==
    /\ spc[l] = "init"
    /\ \/ /\ spc' = Upd(spc, l, "read")
          /\ setupI' = Upd(setupI, l, 1)
          /\ UNCHANGED setupErr
       \/ /\ \E why \in {"create peering request", "write peering request"} : SetupFails(l, why)
          /\ UNCHANGED setupI
    /\ UNCHANGED <<handleRes, encSession, peer, switchLabel>>
    /\ UNCHANGED <<closeVars, regVars, readerVars, writerVars, queueVars, envVars>>
    /\ UNCHANGED nonLinkVars

\* readFrame of setup message i (link.go:574-577).
handleSetupMessages_read(l) ==
    /\ spc[l] = "read"
    /\ \/ spc' = Upd(spc, l, "handle") /\ UNCHANGED setupErr
       \/ SetupFails(l, "read peering msg")
    /\ UNCHANGED <<setupI, handleRes, encSession, peer, switchLabel>>
    /\ UNCHANGED <<closeVars, regVars, readerVars, writerVars, queueVars, envVars>>
    /\ UNCHANGED nonLinkVars

\* A faulty loop: "for i := 1; i <= 4; i++".
AfterHandle_fourMessages(i, hasResp, hasErr, writeOK) ==
    IF hasErr THEN "handle peering msg"
    ELSE IF ~hasResp THEN "finalize"
    ELSE IF ~writeOK THEN "write peering msg response"
    ELSE IF i + 1 <= MaxSetupMsgs + 1 THEN "read"
    ELSE "too much setup"

\* What follows state.handle(f) returning (resp, err) (link.go:579-598): an
\* error fails the setup (after a best-effort write of resp), no response ends
\* the exchange, a response is written and the loop goes on while i <= 3.
AfterHandle(i, hasResp, hasErr, writeOK) ==
    IF hasErr THEN "handle peering msg"
    ELSE IF ~hasResp THEN "finalize"
    ELSE IF ~writeOK THEN "write peering msg response"
    ELSE IF i + 1 <= MaxSetupMsgs THEN "read"
    ELSE "too much setup"

\* "f, err = state.handle(f)" (link.go:579) as the loop sees it.
HandleResult(hasResp, hasErr) ==
    IF hasErr THEN "error" ELSE IF hasResp THEN "response" ELSE "done"

\* state.handle(f) and the write of its response (link.go:579-598).
handleSetupMessages_handle(l) ==
    /\ spc[l] = "handle"
    /\ \E hasResp \in BOOLEAN, hasErr \in BOOLEAN, writeOK \in BOOLEAN :
        LET next == AfterHandle(setupI[l], hasResp, hasErr, writeOK) IN
        /\ handleRes' = Upd(handleRes, l, IF next = "read" THEN "none"
                                           ELSE HandleResult(hasResp, hasErr))
        /\ IF next \in {"finalize", "read"}
           THEN /\ spc' = Upd(spc, l, next)
                /\ setupI' = Upd(setupI, l, IF next = "read" THEN setupI[l] + 1 ELSE setupI[l])
                /\ UNCHANGED setupErr
           ELSE /\ SetupFails(l, next)
                /\ UNCHANGED setupI
    /\ UNCHANGED <<encSession, peer, switchLabel>>
    /\ UNCHANGED <<closeVars, regVars, readerVars, writerVars, queueVars, envVars>>
    /\ UNCHANGED nonLinkVars

\* The results handleSetupMessages can have from the read of setup message
\* i on: res is "finalize" (it returned the state and no error) or one of
\* its errors, i the message it stopped at, h what state.handle returned for
\* that message.
RECURSIVE SetupResultsFrom(_)
SetupResultsFrom(i) ==
    LET handled == {<<AfterHandle(i, hasResp, hasErr, writeOK), HandleResult(hasResp, hasErr)>> :
                        hasResp \in BOOLEAN, hasErr \in BOOLEAN, writeOK \in BOOLEAN}
    IN  {[res |-> "read peering msg", i |-> i, h |-> "none"]}
            \cup {[res |-> o[1], i |-> i, h |-> o[2]] : o \in {x \in handled : x[1] # "read"}}
            \cup (IF \E o \in handled : o[1] = "read" THEN SetupResultsFrom(i + 1) ELSE {})

\* handleSetupMessages as one step (link.go:558-600).  The handshake reads
\* and writes only the link's own stream, so that its steps need not be
\* interleaved with those of other links.
handleSetupMessages(l) ==
    /\ spc[l] = "init"
    /\ \E r \in {[res |-> why, i |-> 0, h |-> "none"] :
                    why \in {"create peering request", "write peering request"}}
                \cup SetupResultsFrom(1) :
        /\ setupI' = Upd(setupI, l, r.i)
        /\ handleRes' = Upd(handleRes, l, r.h)
        /\ IF r.res = "finalize"
           THEN spc' = Upd(spc, l, "finalize") /\ UNCHANGED setupErr
           ELSE SetupFails(l, r.res)
    /\ UNCHANGED <<encSession, peer, switchLabel>>
    /\ UNCHANGED <<closeVars, regVars, readerVars, writerVars, queueVars, envVars>>
    /\ UNCHANGED nonLinkVars

\* A faulty setupWorker: the session finalize returns is not stored.
setupWorker_finalize_noSession(l) ==
    /\ spc[l] = "finalize"
    /\ \/ /\ \E p \in Peers : peer' = Upd(peer, l, p)
          /\ spc' = Upd(spc, l, "assign")
          /\ UNCHANGED setupErr
       \/ /\ SetupFails(l, "finalize")
          /\ UNCHANGED peer
    /\ UNCHANGED <<setupI, handleRes, encSession, switchLabel>>
    /\ UNCHANGED <<closeVars, regVars, readerVars, writerVars, queueVars, envVars>>
    /\ UNCHANGED nonLinkVars

\* peeringState.finalize() and link.peer = ... (link.go:495-499).
setupWorker_finalize(l) ==
    /\ spc[l] = "finalize"
    /\ \/ /\ encSession' = Upd(encSession, l, TRUE)
          /\ \E p \in Peers : peer' = Upd(peer, l, p)
          /\ spc' = Upd(spc, l, "assign")
          /\ UNCHANGED setupErr
       \/ /\ SetupFails(l, "finalize")
          /\ UNCHANGED <<encSession, peer>>
    /\ UNCHANGED <<setupI, handleRes, switchLabel>>
    /\ UNCHANGED <<closeVars, regVars, readerVars, writerVars, queueVars, envVars>>
    /\ UNCHANGED nonLinkVars

\* "ok && label != 0 && link.peering.GetLinkByLabel(label) == nil"
LabelIsFree(label) == label # 0 /\ GetLinkByLabel(label) = 0

\* assignSwitchLabel, the derived label (link.go:604-608).
assignSwitchLabel_derived(l) ==
    /\ spc[l] = "assign"
    /\ LET label == DeriveSwitchLabelFromIP(peer[l]) IN
        IF LabelIsFree(label)
        THEN /\ switchLabel' = Upd(switchLabel, l, label)
             /\ spc' = Upd(spc, l, "addlink")
        ELSE /\ spc' = Upd(spc, l, IF RoutingAddressPrefixContains(peer[l])
                                    THEN "randomShort" ELSE "randomLong")
             /\ UNCHANGED switchLabel
    /\ UNCHANGED <<setupI, setupErr, handleRes, encSession, peer>>
    /\ UNCHANGED <<closeVars, regVars, readerVars, writerVars, queueVars, envVars>>
    /\ UNCHANGED nonLinkVars

\* assignSwitchLabel, the 100 random short labels (link.go:611-619): one of
\* the tries finds a free label, or none does.
assignSwitchLabel_short(l) ==
    /\ spc[l] = "randomShort"
    /\ \/ \E label \in ShortLabels :
            /\ LabelIsFree(label)
            /\ switchLabel' = Upd(switchLabel, l, label)
            /\ spc' = Upd(spc, l, "addlink")
       \/ /\ spc' = Upd(spc, l, "randomLong")
          /\ UNCHANGED switchLabel
    /\ UNCHANGED <<setupI, setupErr, handleRes, encSession, peer>>
    /\ UNCHANGED <<closeVars, regVars, readerVars, writerVars, queueVars, envVars>>
    /\ UNCHANGED nonLinkVars

\* assignSwitchLabel, the 1000 random long labels (link.go:622-630).
assignSwitchLabel_long(l) ==
    /\ spc[l] = "randomLong"
    /\ \/ \E label \in Labels :
            /\ LabelIsFree(label)
            /\ switchLabel' = Upd(switchLabel, l, label)
            /\ spc' = Upd(spc, l, "addlink")
            /\ UNCHANGED setupErr
       \/ /\ SetupFails(l, "no suitable switch label found")
          /\ UNCHANGED switchLabel
    /\ UNCHANGED <<setupI, handleRes, encSession, peer>>
    /\ UNCHANGED <<closeVars, regVars, readerVars, writerVars, queueVars, envVars>>
    /\ UNCHANGED nonLinkVars

\* A faulty setupWorker: the error of AddLink is dropped.
AfterAddLink_ignoresError(ok) == "start"

\* What setupWorker does with the result of AddLink (link.go:502-505).
AfterAddLink(ok) == IF ok THEN "start" ELSE "failed"

\* err = link.peering.AddLink(link) (link.go:502-504).
setupWorker_AddLink(l) ==
    /\ spc[l] = "addlink"
    /\ IF AddLinkOK(l)
       THEN /\ AddLink(l)
            /\ spc' = Upd(spc, l, AfterAddLink(TRUE))
            /\ UNCHANGED setupErr
       ELSE /\ spc' = Upd(spc, l, AfterAddLink(FALSE))
            /\ setupErr' = Upd(setupErr, l, IF AfterAddLink(FALSE) = "failed" THEN "add link" ELSE "none")
            /\ UNCHANGED regVars
    /\ UNCHANGED <<setupI, handleRes, encSession, peer, switchLabel>>
    /\ UNCHANGED <<closeVars, readerVars, writerVars, queueVars, envVars>>
    /\ UNCHANGED nonLinkVars

\* setupWorker, err # nil: link.Close(func() {...}) (link.go:505-515).
setupWorker_fail(l) ==
    /\ spc[l] = "failed"
    /\ cpc[l]["setup"] = "idle"
    /\ CallClose(l, "setup", TRUE)
    /\ spc' = Upd(spc, l, "closing")
    /\ UNCHANGED <<setupI, setupErr, handleRes, encSession, peer, switchLabel>>
    /\ UNCHANGED <<closing, logRuns, removeCalls, connCloses, extCloses, casWinner>>
    /\ UNCHANGED <<regVars, readerVars, writerVars, queueVars, envVars>>
    /\ UNCHANGED nonLinkVars

\* handleSetup, err # nil: link.Close(nil) (link.go:541-544).
handleSetup_fail(l) ==
    /\ spc[l] = "failed"
    /\ cpc[l]["setup"] = "idle"
    /\ CallClose(l, "setup", FALSE)
    /\ spc' = Upd(spc, l, "closing")
    /\ UNCHANGED <<setupI, setupErr, handleRes, encSession, peer, switchLabel>>
    /\ UNCHANGED <<closing, logRuns, removeCalls, connCloses, extCloses, casWinner>>
    /\ UNCHANGED <<regVars, readerVars, writerVars, queueVars, envVars>>
    /\ UNCHANGED nonLinkVars

\* A faulty setupWorker: no return after the failed setup's Close, so that
\* startWorkers is reached.
setupWorker_noReturn(l) ==
    /\ spc[l] = "closing"
    /\ cpc[l]["setup"] = "idle"
    /\ spc' = Upd(spc, l, "done_fail")
    /\ rpc' = Upd(rpc, l, "read")
    /\ wpc' = Upd(wpc, l, "select")
    /\ UNCHANGED <<setupI, setupErr, handleRes, encSession, peer, switchLabel>>
    /\ UNCHANGED <<rerr, wf, werr, overtaken>>
    /\ UNCHANGED <<closeVars, regVars, queueVars, envVars>>
    /\ UNCHANGED nonLinkVars

\* The failed setup returns once its Close call has returned.
setupWorker_return(l) ==
    /\ spc[l] = "closing"
    /\ cpc[l]["setup"] = "idle"
    /\ spc' = Upd(spc, l, "done_fail")
    /\ UNCHANGED <<setupI, setupErr, handleRes, encSession, peer, switchLabel>>
    /\ UNCHANGED <<closeVars, regVars, readerVars, writerVars, queueVars, envVars>>
    /\ UNCHANGED nonLinkVars

\* "if link.encSession != nil" (link.go:377 and link.go:406): readFrame
\* unseals and writeFrame seals; otherwise the frame is parsed and written
\* directly.
SealedPath(l) == encSession[l]

\* startWorkers (link.go:119-122), reached only with err = nil (link.go:525).
startWorkers(l) ==
    /\ spc[l] = "start"
    /\ rpc' = Upd(rpc, l, "read")
    /\ wpc' = Upd(wpc, l, "select")
    /\ spc' = Upd(spc, l, "done_ok")
    /\ UNCHANGED <<setupI, setupErr, handleRes, encSession, peer, switchLabel>>
    /\ UNCHANGED <<rerr, wf, werr, overtaken>>
    /\ UNCHANGED <<closeVars, regVars, queueVars, envVars>>
    /\ UNCHANGED nonLinkVars

(***************************************************************************)
(* Send entry points (link.go:155-171): a select with a default case.      *)
(***************************************************************************)
\* A faulty offer: the queue is treated as unbounded.
Offer_unbounded(q, f, cap) == Append(q, f)

\* A faulty offer: the frame is put at the head of the queue.
Offer_prepend(q, f, cap) == IF Len(q) < cap THEN <<f>> \o q ELSE q

\* "select { case q <- f: default: }" on a channel of capacity cap.
Offer(q, f, cap) == IF Len(q) < cap THEN Append(q, f) ELSE q

\* SendPriority(f) (link.go:156-162).
SendPriority(l, f) ==
    /\ Published(l)
    /\ f = nextFrame
    /\ sendQueuePrio' = Upd(sendQueuePrio, l, Offer(sendQueuePrio[l], f, PrioQueueCap))
    /\ sendRet' = "nil"
    /\ nextFrame' = nextFrame + 1
    /\ UNCHANGED <<sendQueueRegl, pooled>>
    /\ UNCHANGED <<setupVars, closeVars, regVars, readerVars, writerVars, envVars>>
    /\ UNCHANGED nonLinkVars

\* Send(f) (link.go:165-171).
Send(l, f) ==
    /\ Published(l)
    /\ f = nextFrame
    /\ sendQueueRegl' = Upd(sendQueueRegl, l, Offer(sendQueueRegl[l], f, ReglQueueCap))
    /\ sendRet' = "nil"
    /\ nextFrame' = nextFrame + 1
    /\ UNCHANGED <<sendQueuePrio, pooled>>
    /\ UNCHANGED <<setupVars, closeVars, regVars, readerVars, writerVars, envVars>>
    /\ UNCHANGED nonLinkVars

(***************************************************************************)
(* The consecutive-error counters run up to MaxConsecutiveErrors; the      *)
(* model follows them for MaxErrRun steps from zero and for the last       *)
(* MaxErrRun + 1 steps before the limit.                                    *)
(***************************************************************************)
ErrRunExplored(n) == n < MaxErrRun \/ n >= MaxConsecutiveErrors - MaxErrRun - 1

\* A faulty limit: the link is closed one error late.
ClosesAfterError_oneLate(n) == n + 1 > MaxConsecutiveErrors

\* "consecutiveErrors++; if consecutiveErrors >= 100 { link.Close(...); return nil }"
ClosesAfterError(n) == n + 1 >= MaxConsecutiveErrors

\* Where a run of consecutive non-fatal errors that started at zero and went
\* on beyond MaxErrRun is taken up again: MaxErrRun + 1 errors before the
\* limit.
ErrRunResumes == MaxConsecutiveErrors - MaxErrRun - 1

(***************************************************************************)
(* The reader goroutine (link.go:223-294).                                 *)
(***************************************************************************)
\* readFrame returned a frame: consecutiveErrors = 0 (link.go:238-240).
reader_readFrame_ok(l) ==
    /\ rpc[l] = "read"
    /\ connCloses[l] = 0
    /\ rerr' = Upd(rerr, l, 0)
    /\ rpc' = Upd(rpc, l, "deliver")
    /\ UNCHANGED <<setupVars, closeVars, regVars, writerVars, queueVars, envVars>>
    /\ UNCHANGED nonLinkVars

\* readFrame failed with ErrNetworkReadError, io.EOF or another i/o error
\* (link.go:237, 443, 459, 470); a read on the closed connection always does.
reader_readFrame_netErr(l) ==
    /\ rpc[l] = "read"
    /\ rpc' = Upd(rpc, l, "neterr")
    /\ UNCHANGED rerr
    /\ UNCHANGED <<setupVars, closeVars, regVars, writerVars, queueVars, envVars>>
    /\ UNCHANGED nonLinkVars

\* A faulty reader: the network error is counted like a non-fatal error and
\* the reader reads again.
reader_netErr_counted(l) ==
    /\ rpc[l] = "neterr"
    /\ rerr[l] < MaxConsecutiveErrors
    /\ rerr' = Upd(rerr, l, rerr[l] + 1)
    /\ rpc' = Upd(rpc, l, "read")
    /\ UNCHANGED <<setupVars, closeVars, regVars, writerVars, queueVars, envVars>>
    /\ UNCHANGED nonLinkVars

\* "if errors.Is(err, ErrNetworkReadError) { link.Close(...); return nil }"
\* (link.go:250-271), for io.EOF and for any other i/o error.
reader_netErr(l) ==
    /\ rpc[l] = "neterr"
    /\ cpc[l]["reader"] = "idle"
    /\ CallClose(l, "reader", TRUE)
    /\ rpc' = Upd(rpc, l, "closing")
    /\ UNCHANGED rerr
    /\ UNCHANGED <<closing, logRuns, removeCalls, connCloses, extCloses, casWinner>>
    /\ UNCHANGED <<setupVars, regVars, writerVars, queueVars, envVars>>
    /\ UNCHANGED nonLinkVars

\* readFrame failed with a non-fatal error (link.go:273-293).
reader_readFrame_nonFatal(l) ==
    /\ rpc[l] = "read"
    /\ connCloses[l] = 0
    /\ cpc[l]["reader"] = "idle"
    /\ ErrRunExplored(rerr[l])
    /\ rerr' = Upd(rerr, l, rerr[l] + 1)
    /\ IF ClosesAfterError(rerr[l])
       THEN /\ CallClose(l, "reader", TRUE)
            /\ rpc' = Upd(rpc, l, "closing")
       ELSE UNCHANGED <<rpc, cpc, clog>>
    /\ UNCHANGED <<closing, logRuns, removeCalls, connCloses, extCloses, casWinner>>
    /\ UNCHANGED <<setupVars, regVars, writerVars, queueVars, envVars>>
    /\ UNCHANGED nonLinkVars

\* The loop iterations from the MaxErrRun-th consecutive non-fatal error to
\* the ErrRunResumes-th (link.go:236-293, each one as
\* reader_readFrame_nonFatal below the limit): only the counter changes.
reader_readFrame_nonFatalRun(l) ==
    /\ rpc[l] = "read"
    /\ connCloses[l] = 0
    /\ rerr[l] = MaxErrRun
    /\ rerr' = Upd(rerr, l, ErrRunResumes)
    /\ UNCHANGED rpc
    /\ UNCHANGED <<setupVars, closeVars, regVars, writerVars, queueVars, envVars>>
    /\ UNCHANGED nonLinkVars

\* "case upstream <- f:" (link.go:242).
reader_upstream(l) ==
    /\ rpc[l] = "deliver"
    /\ Len(upstream) < UpstreamCap
    /\ upstream' = Append(upstream, l)
    /\ rpc' = Upd(rpc, l, "read")
    /\ UNCHANGED <<rerr, mgrDone>>
    /\ UNCHANGED <<setupVars, closeVars, regVars, writerVars, queueVars>>
    /\ UNCHANGED nonLinkVars

\* "case <-w.Done(): return nil" (link.go:243-244); the deferred Close runs.
reader_done(l) ==
    /\ rpc[l] = "deliver"
    /\ mgrDone
    /\ cpc[l]["reader"] = "idle"
    /\ CallClose(l, "reader", TRUE)
    /\ rpc' = Upd(rpc, l, "deferred")
    /\ UNCHANGED rerr
    /\ UNCHANGED <<closing, logRuns, removeCalls, connCloses, extCloses, casWinner>>
    /\ UNCHANGED <<setupVars, regVars, writerVars, queueVars, envVars>>
    /\ UNCHANGED nonLinkVars

\* "return nil" after the reader's own Close call: the deferred Close
\* (link.go:224-230) runs.
reader_defer(l) ==
    /\ rpc[l] = "closing"
    /\ cpc[l]["reader"] = "idle"
    /\ CallClose(l, "reader", TRUE)
    /\ rpc' = Upd(rpc, l, "deferred")
    /\ UNCHANGED rerr
    /\ UNCHANGED <<closing, logRuns, removeCalls, connCloses, extCloses, casWinner>>
    /\ UNCHANGED <<setupVars, regVars, writerVars, queueVars, envVars>>
    /\ UNCHANGED nonLinkVars

\* The deferred Close has returned: the reader goroutine ends.
reader_exit(l) ==
    /\ rpc[l] = "deferred"
    /\ cpc[l]["reader"] = "idle"
    /\ rpc' = Upd(rpc, l, "done")
    /\ UNCHANGED rerr
    /\ UNCHANGED <<setupVars, closeVars, regVars, writerVars, queueVars, envVars>>
    /\ UNCHANGED nonLinkVars

(***************************************************************************)
(* The writer goroutine (link.go:296-366).                                 *)
(***************************************************************************)
\* The outer select (link.go:311-313): "case f = <-link.sendQueuePrio:" if a
\* priority frame is ready, else the default case.
writer_select(l) ==
    /\ wpc[l] = "select"
    /\ IF sendQueuePrio[l] # << >>
       THEN /\ wf' = Upd(wf, l, Head(sendQueuePrio[l]))
            /\ sendQueuePrio' = Upd(sendQueuePrio, l, Tail(sendQueuePrio[l]))
            /\ wpc' = Upd(wpc, l, "write")
            /\ overtaken' = Upd(overtaken, l, 0)
       ELSE /\ wpc' = Upd(wpc, l, "select2")
            /\ UNCHANGED <<wf, sendQueuePrio, overtaken>>
    /\ UNCHANGED <<werr, sendQueueRegl, nextFrame, sendRet, pooled>>
    /\ UNCHANGED <<setupVars, closeVars, regVars, readerVars, envVars>>
    /\ UNCHANGED nonLinkVars

\* The inner select, "case f = <-link.sendQueuePrio:" (link.go:315).
writer_select2_prio(l) ==
    /\ wpc[l] = "select2"
    /\ sendQueuePrio[l] # << >>
    /\ wf' = Upd(wf, l, Head(sendQueuePrio[l]))
    /\ sendQueuePrio' = Upd(sendQueuePrio, l, Tail(sendQueuePrio[l]))
    /\ wpc' = Upd(wpc, l, "write")
    /\ overtaken' = Upd(overtaken, l, 0)
    /\ UNCHANGED <<werr, sendQueueRegl, nextFrame, sendRet, pooled>>
    /\ UNCHANGED <<setupVars, closeVars, regVars, readerVars, envVars>>
    /\ UNCHANGED nonLinkVars

\* The inner select, "case f = <-link.sendQueueRegl:" (link.go:316).
writer_select2_regl(l) ==
    /\ wpc[l] = "select2"
    /\ sendQueueRegl[l] # << >>
    /\ wf' = Upd(wf, l, Head(sendQueueRegl[l]))
    /\ sendQueueRegl' = Upd(sendQueueRegl, l, Tail(sendQueueRegl[l]))
    /\ wpc' = Upd(wpc, l, "write")
    /\ overtaken' = Upd(overtaken, l, IF sendQueuePrio[l] # << >>
                                      THEN overtaken[l] + 1 ELSE overtaken[l])
    /\ UNCHANGED <<werr, sendQueuePrio, nextFrame, sendRet, pooled>>
    /\ UNCHANGED <<setupVars, closeVars, regVars, readerVars, envVars>>
    /\ UNCHANGED nonLinkVars

\* The inner select, "case <-w.Done(): return nil" (link.go:317-318); the
\* deferred Close runs.
writer_select2_done(l) ==
    /\ wpc[l] = "select2"
    /\ mgrDone
    /\ cpc[l]["writer"] = "idle"
    /\ CallClose(l, "writer", TRUE)
    /\ wpc' = Upd(wpc, l, "deferred")
    /\ UNCHANGED <<wf, werr, overtaken>>
    /\ UNCHANGED <<closing, logRuns, removeCalls, connCloses, extCloses, casWinner>>
    /\ UNCHANGED <<setupVars, regVars, readerVars, queueVars, envVars>>
    /\ UNCHANGED nonLinkVars

\* "defer f.ReturnToPool()" (link.go:403): runs once when writeFrame returns,
\* with or without an error.
ReturnToPool(pool, f) == [pool EXCEPT ![f] = @ + 1]

\* writeFrame returned nil: consecutiveErrors = 0 (link.go:326-330).
writer_writeFrame_ok(l) ==
    /\ wpc[l] = "write"
    /\ connCloses[l] = 0
    /\ werr' = Upd(werr, l, 0)
    /\ wf' = Upd(wf, l, 0)
    /\ pooled' = ReturnToPool(pooled, wf[l])
    /\ UNCHANGED <<sendQueuePrio, sendQueueRegl, nextFrame, sendRet>>
    /\ wpc' = Upd(wpc, l, "select")
    /\ UNCHANGED overtaken
    /\ UNCHANGED <<setupVars, closeVars, regVars, readerVars, envVars>>
    /\ UNCHANGED nonLinkVars

\* writeFrame failed with ErrNetworkWriteError (link.go:326, 484); a write on
\* the closed connection does.
writer_writeFrame_netErr(l) ==
    /\ wpc[l] = "write"
    /\ wf' = Upd(wf, l, 0)
    /\ pooled' = ReturnToPool(pooled, wf[l])
    /\ UNCHANGED <<sendQueuePrio, sendQueueRegl, nextFrame, sendRet>>
    /\ wpc' = Upd(wpc, l, "neterr")
    /\ UNCHANGED <<werr, overtaken>>
    /\ UNCHANGED <<setupVars, closeVars, regVars, readerVars, envVars>>
    /\ UNCHANGED nonLinkVars

\* "if errors.Is(err, ErrNetworkWriteError) { link.Close(...); return nil }"
\* (link.go:333-343).
writer_netErr(l) ==
    /\ wpc[l] = "neterr"
    /\ cpc[l]["writer"] = "idle"
    /\ CallClose(l, "writer", TRUE)
    /\ wpc' = Upd(wpc, l, "closing")
    /\ UNCHANGED <<wf, werr, overtaken>>
    /\ UNCHANGED <<closing, logRuns, removeCalls, connCloses, extCloses, casWinner>>
    /\ UNCHANGED <<setupVars, regVars, readerVars, queueVars, envVars>>
    /\ UNCHANGED nonLinkVars

\* writeFrame failed before writing (margins, seal, size): non-fatal
\* (link.go:345-365).
writer_writeFrame_nonFatal(l) ==
    /\ wpc[l] = "write"
    /\ cpc[l]["writer"] = "idle"
    /\ ErrRunExplored(werr[l])
    /\ werr' = Upd(werr, l, werr[l] + 1)
    /\ wf' = Upd(wf, l, 0)
    /\ pooled' = ReturnToPool(pooled, wf[l])
    /\ UNCHANGED <<sendQueuePrio, sendQueueRegl, nextFrame, sendRet>>
    /\ UNCHANGED overtaken
    /\ IF ClosesAfterError(werr[l])
       THEN /\ CallClose(l, "writer", TRUE)
            /\ wpc' = Upd(wpc, l, "closing")
       ELSE /\ wpc' = Upd(wpc, l, "select")
            /\ UNCHANGED <<cpc, clog>>
    /\ UNCHANGED <<closing, logRuns, removeCalls, connCloses, extCloses, casWinner>>
    /\ UNCHANGED <<setupVars, regVars, readerVars, envVars>>
    /\ UNCHANGED nonLinkVars

\* "return nil" after the writer's own Close call: the deferred Close
\* (link.go:297-303) runs.
writer_defer(l) ==
    /\ wpc[l] = "closing"
    /\ cpc[l]["writer"] = "idle"
    /\ CallClose(l, "writer", TRUE)
    /\ wpc' = Upd(wpc, l, "deferred")
    /\ UNCHANGED <<wf, werr, overtaken>>
    /\ UNCHANGED <<closing, logRuns, removeCalls, connCloses, extCloses, casWinner>>
    /\ UNCHANGED <<setupVars, regVars, readerVars, queueVars, envVars>>
    /\ UNCHANGED nonLinkVars

\* The deferred Close has returned: the writer goroutine ends.
writer_exit(l) ==
    /\ wpc[l] = "deferred"
    /\ cpc[l]["writer"] = "idle"
    /\ wpc' = Upd(wpc, l, "done")
    /\ UNCHANGED <<wf, werr, overtaken>>
    /\ UNCHANGED <<setupVars, closeVars, regVars, readerVars, queueVars, envVars>>
    /\ UNCHANGED nonLinkVars

(***************************************************************************)
(* The environment of the links.                                           *)
(***************************************************************************)
\* The router takes a frame from the frame handler channel.
UpstreamRecv ==
    /\ upstream # << >>
    /\ upstream' = Tail(upstream)
    /\ UNCHANGED mgrDone
    /\ UNCHANGED <<setupVars, closeVars, regVars, readerVars, writerVars, queueVars>>
    /\ UNCHANGED nonLinkVars

\* The manager shuts down: every worker's Done channel is closed.
MgrShutdown ==
    /\ ~mgrDone
    /\ mgrDone' = TRUE
    /\ UNCHANGED upstream
    /\ UNCHANGED <<setupVars, closeVars, regVars, readerVars, writerVars, queueVars>>
    /\ UNCHANGED nonLinkVars

(***************************************************************************)
(* The ping/pong handler (ping_pong.go).  h.active is guarded by           *)
(* h.activeLock: setActive, pluckActive and Clean are atomic.  A ping      *)
(* state is named by the Send call that made it; as newPingID returns a     *)
(* fresh id for every call, that is the ping id.                           *)
(***************************************************************************)
\* "now.After(pongState.expires)" (ping_pong.go:75).
Expired(now, exp) == now > exp

\* h.active after setActive(pingID, pongState) (ping_pong.go:52).
setActive(a, pingID, st) == [a EXCEPT ![pingID] = st]

\* A faulty pluckActive: the entry is read but not deleted.
pluckActive_noDelete(a, pingID) == a

\* A faulty pluckActive: the whole map is cleared.
pluckActive_clearsMap(a, pingID) == [id \in PingIDs |-> 0]

\* h.active after pluckActive(pingID) (ping_pong.go:59-65).
pluckActive(a, pingID) == [a EXCEPT ![pingID] = 0]

\* h.active after Clean at time now (ping_pong.go:73-78).
CleanActive(a, exp, now) ==
    [id \in PingIDs |-> IF a[id] # 0 /\ Expired(now, exp[a[id]]) THEN 0 ELSE a[id]]

\* Send up to sendPingMsg (ping_pong.go:89-110): the state is made, a fresh
\* ping id is drawn and the ping is transmitted, or sendPingMsg fails and
\* Send returns the error.
PingSend_transmit(id) ==
    /\ id = nextPingID
    /\ nextPingID' = nextPingID + 1
    /\ \E ok \in BOOLEAN : pst' = [pst EXCEPT ![id] = IF ok THEN "sent" ELSE "failed"]
    /\ UNCHANGED <<clock, active, expires, notifyCloses, hpc, hid, hmsg, hstate, firstResp>>
    /\ UNCHANGED nonPingVars

\* h.setActive(pingID, pingState); return pingState.notify, nil
\* (ping_pong.go:112-114 and 47-53).
PingSend_setActive(id) ==
    /\ pst[id] = "sent"
    /\ expires' = [expires EXCEPT ![id] = clock + PingExpiry]
    /\ active' = setActive(active, id, id)
    /\ pst' = [pst EXCEPT ![id] = "registered"]
    /\ UNCHANGED <<clock, nextPingID, notifyCloses, hpc, hid, hmsg, hstate, firstResp>>
    /\ UNCHANGED nonPingVars

\* The ping was transmitted and its 30 seconds have not passed.
InTime(id) ==
    \/ pst[id] = "sent"
    \/ pst[id] = "registered" /\ ~Expired(clock, expires[id])

\* Handle with hdr.FollowUp: handleResponse up to the return of pluckActive
\* (ping_pong.go:118-120, 156-158 and 55-66).  Which
\* goroutine runs the call does not matter: the first idle one does.  The
\* message is only looked at when a state was found (ping_pong.go:159-164).
handleResponse_pluckActive(h, id, msg) ==
    /\ hpc[h] = "idle"
    /\ \A h2 \in Handlers : h2 < h => hpc[h2] # "idle"
    /\ hpc' = [hpc EXCEPT ![h] = "plucked"]
    /\ hid' = [hid EXCEPT ![h] = id]
    /\ hmsg' = [hmsg EXCEPT ![h] = IF active[id] = 0 THEN "pong" ELSE msg]
    /\ hstate' = [hstate EXCEPT ![h] = active[id]]
    /\ active' = pluckActive(active, id)
    /\ firstResp' = IF pst[id] \in {"sent", "registered"} /\ firstResp[id] = "none"
                     THEN [firstResp EXCEPT ![id] =
                              IF msg = "pong" /\ InTime(id) THEN "pong" ELSE "other"]
                     ELSE firstResp
    /\ UNCHANGED <<clock, nextPingID, pst, expires, notifyCloses>>
    /\ UNCHANGED nonPingVars

\* What handleResponse returns (ping_pong.go:159-180).
handleResponseResult(st, msg) ==
    IF st = 0 THEN "no state"
    ELSE IF msg = "garbage" THEN "unmarshal response"
    ELSE IF msg # "pong" THEN "invalid ping pong response"
    ELSE "nil"

\* handleResponse from the nil check to its return (ping_pong.go:159-180).
handleResponse_finish(h) ==
    /\ hpc[h] = "plucked"
    /\ LET r == handleResponseResult(hstate[h], hmsg[h]) IN
        /\ notifyCloses' = IF r = "nil"
                           THEN [notifyCloses EXCEPT ![hstate[h]] = @ + 1]
                           ELSE notifyCloses
    /\ hpc' = [hpc EXCEPT ![h] = "idle"]
    /\ hstate' = [hstate EXCEPT ![h] = 0]
    /\ hid' = [hid EXCEPT ![h] = 1]
    /\ hmsg' = [hmsg EXCEPT ![h] = "pong"]
    /\ UNCHANGED <<clock, nextPingID, pst, active, expires, firstResp>>
    /\ UNCHANGED nonPingVars

\* Clean (ping_pong.go:69-81).
Clean ==
    /\ active' = CleanActive(active, expires, clock)
    /\ UNCHANGED <<clock, nextPingID, pst, expires, notifyCloses, hpc, hid, hmsg, hstate,
                   firstResp>>
    /\ UNCHANGED nonPingVars

\* Time passes.
Tick(d) ==
    /\ clock + d <= MaxTime
    /\ clock' = clock + d
    /\ UNCHANGED <<nextPingID, pst, active, expires, notifyCloses, hpc, hid, hmsg, hstate,
                   firstResp>>
    /\ UNCHANGED nonPingVars

(***************************************************************************)
(* FlowControlIndicator (link.go:188-200) on the fill levels of a link      *)
(* whose queues have their full size: only the lengths of the queues are   *)
(* kept.                                                                   *)
(***************************************************************************)
\* A faulty indicator: the frames of both queues are counted.
FlowControlIndicator_bothQueues(regl, prio, cap) ==
    LET percent == ((regl + prio) * 100) \div cap
    IN  IF percent >= 70 THEN "DecreaseFlow"
        ELSE IF percent >= 30 THEN "HoldFlow"
        ELSE "IncreaseFlow"

\* A faulty indicator: HoldFlow from 20% on.
FlowControlIndicator_holdFrom20(regl, prio, cap) ==
    LET percent == (regl * 100) \div cap
    IN  IF percent >= 70 THEN "DecreaseFlow"
        ELSE IF percent >= 20 THEN "HoldFlow"
        ELSE "IncreaseFlow"

\* FlowControlIndicator (link.go:190-200) on a link with regl frames in the
\* regular queue of capacity cap and prio frames in the priority queue:
\* "percent := len(link.sendQueueRegl) * 100 / cap(link.sendQueueRegl)".
FlowControlIndicator(regl, prio, cap) ==
    LET percent == (regl * 100) \div cap
    IN  IF percent >= 70 THEN "DecreaseFlow"
        ELSE IF percent >= 30 THEN "HoldFlow"
        ELSE "IncreaseFlow"

\* A call of FlowControlIndicator.
FlowControlIndicator_call ==
    /\ fcRet = "none"
    /\ fcRet' = FlowControlIndicator(fcRegl, fcPrio, fcCap)
    /\ UNCHANGED <<fcRegl, fcPrio, fcCap>>
    /\ UNCHANGED nonFlowVars

\* Send accepts a frame (link.go:167).
Flow_Send ==
    /\ fcRegl < fcCap
    /\ fcRegl' = fcRegl + 1
    /\ fcRet' = "none"
    /\ UNCHANGED <<fcPrio, fcCap>>
    /\ UNCHANGED nonFlowVars

\* SendPriority accepts a frame (link.go:158).
Flow_SendPriority ==
    /\ fcPrio < MaxPrioFill
    /\ fcPrio' = fcPrio + 1
    /\ fcRet' = "none"
    /\ UNCHANGED <<fcRegl, fcCap>>
    /\ UNCHANGED nonFlowVars

\* The writer takes a frame from the regular queue (link.go:316).
Flow_writerTakesRegl ==
    /\ fcRegl > 0
    /\ fcRegl' = fcRegl - 1
    /\ fcRet' = "none"
    /\ UNCHANGED <<fcPrio, fcCap>>
    /\ UNCHANGED nonFlowVars

\* The writer takes a frame from the priority queue (link.go:312, 315).
Flow_writerTakesPrio ==
    /\ fcPrio > 0
    /\ fcPrio' = fcPrio - 1
    /\ fcRet' = "none"
    /\ UNCHANGED <<fcRegl, fcCap>>
    /\ UNCHANGED nonFlowVars

(***************************************************************************)
(* readLengthAndData (link.go:436-476) on the byte stream of the           *)
(* connection.  A record that announces the length n takes n bytes of the  *)
(* stream, its two length bytes included (writeFrame, link.go:424-430),   *)
(* and never less than the two length bytes.  conn.Read(p) returns an      *)
(* error or 1..len(p) of the bytes the stream still holds.                 *)
(***************************************************************************)
Min(a, b) == IF a < b THEN a ELSE b

\* The bytes a record that announces the length n takes.
RecordExtent(n) == IF n < 2 THEN 2 ELSE n

RECURSIVE WireOffset(_)
\* The offset of the first byte after the k-th record.
WireOffset(k) == IF k = 0 THEN 0 ELSE WireOffset(k - 1) + RecordExtent(wire[k])

\* The bytes conn.Read may return when asked for k bytes.
ReadSizes(k) == 1..Min(k, WireOffset(Len(wire)) - rdPos)

\* m.GetUint16(to[:2]) for length bytes read from the offset p: the length
\* the record announces if a record starts at p, any value otherwise.
DecodedLens(p) ==
    IF \E k \in 1..Len(wire) : WireOffset(k - 1) = p
    THEN {wire[k] : k \in {j \in 1..Len(wire) : WireOffset(j - 1) = p}}
    ELSE RecLens

\* readFrame calls readLengthAndData (link.go:370); not after a network
\* error, which ends the reader.
readLengthAndData_call ==
    /\ rdPc = "idle"
    /\ rdRet # "neterr"
    /\ rdPc' = "length"
    /\ rdRead' = 0
    /\ rdLen' = 0
    /\ rdRet' = "none"
    /\ UNCHANGED <<wire, rdPos>>
    /\ UNCHANGED nonStreamVars

\* Where the call goes once the length is decoded (link.go:447-453).
AfterLength(dataLen, bufLen) ==
    IF dataLen <= 3 THEN "invalid data length"
    ELSE IF dataLen > bufLen THEN "drain"
    ELSE "data"

\* "for read < 2 { n, err := link.conn.Read(to[read:2]) ... read += n }" and
\* the checks of dataLen (link.go:440-453).
readLengthAndData_length ==
    /\ rdPc = "length"
    /\ \E n \in ReadSizes(2 - rdRead) :
        /\ rdRead' = rdRead + n
        /\ rdPos' = rdPos + n
        /\ IF rdRead + n < 2
           THEN UNCHANGED <<rdLen, rdPc, rdRet>>
           ELSE \E dataLen \in DecodedLens(rdPos + n - 2) :
                    LET next == AfterLength(dataLen, frameSize) IN
                    /\ rdLen' = dataLen
                    /\ IF next \in {"drain", "data"}
                       THEN rdPc' = next /\ UNCHANGED rdRet
                       ELSE rdPc' = "idle" /\ rdRet' = next
    /\ UNCHANGED wire
    /\ UNCHANGED nonStreamVars

\* A faulty request: a full slice is asked for on every Read of the drain.
DrainRequest_fullSlice(bufLen, dataLen, read) == bufLen

\* "to[:min(len(to), dataLen-read)]" (link.go:457): the bytes asked for.
DrainRequest(bufLen, dataLen, read) == Min(bufLen, dataLen - read)

\* "for read < dataLen { n, err := link.conn.Read(to[:min(...)]) ...
\* read += n }; return nil, errors.New("frame too big for slice")"
\* (link.go:456-463).
readLengthAndData_drain ==
    /\ rdPc = "drain"
    /\ \E n \in ReadSizes(DrainRequest(frameSize, rdLen, rdRead)) :
        /\ rdRead' = rdRead + n
        /\ rdPos' = rdPos + n
        /\ IF rdRead + n < rdLen
           THEN UNCHANGED <<rdPc, rdRet>>
           ELSE rdPc' = "idle" /\ rdRet' = "frame too big"
    /\ UNCHANGED <<wire, rdLen>>
    /\ UNCHANGED nonStreamVars

\* "for read < dataLen { n, err := link.conn.Read(to[read:dataLen]) ...
\* read += n }; return to[:dataLen], nil" (link.go:467-475).
readLengthAndData_data ==
    /\ rdPc = "data"
    /\ \E n \in ReadSizes(rdLen - rdRead) :
        /\ rdRead' = rdRead + n
        /\ rdPos' = rdPos + n
        /\ IF rdRead + n < rdLen
           THEN UNCHANGED <<rdPc, rdRet>>
           ELSE rdPc' = "idle" /\ rdRet' = "ok"
    /\ UNCHANGED <<wire, rdLen>>
    /\ UNCHANGED nonStreamVars

\* conn.Read returns an error (io.EOF at the end of the stream included):
\* 'return nil, fmt.Errorf("%w: %w", ErrNetworkReadError, err)'
\* (link.go:442-444, 458-460, 469-471).
readLengthAndData_readErr ==
    /\ rdPc \in {"length", "drain", "data"}
    /\ rdPc' = "idle"
    /\ rdRet' = "neterr"
    /\ UNCHANGED <<wire, rdPos, rdRead, rdLen>>
    /\ UNCHANGED nonStreamVars

(***************************************************************************)
(* Specifications.                                                         *)
(***************************************************************************)
\* The state after newLinkBase (link.go:99-117), with no link set up yet.
InitLinks ==
    /\ spc = [l \in Links |-> "init"]
    /\ setupI = [l \in Links |-> 0]
    /\ setupErr = [l \in Links |-> "none"]
    /\ handleRes = [l \in Links |-> "none"]
    /\ encSession = [l \in Links |-> FALSE]
    /\ peer = [l \in Links |-> 0]
    /\ switchLabel = [l \in Links |-> 0]
    /\ closing = [l \in Links |-> FALSE]
    /\ cpc = [l \in Links |-> [g \in Callers |-> "idle"]]
    /\ clog = [l \in Links |-> [g \in Callers |-> FALSE]]
    /\ logRuns = [l \in Links |-> 0]
    /\ removeCalls = [l \in Links |-> 0]
    /\ connCloses = [l \in Links |-> 0]
    /\ extCloses = [l \in Links |-> 0]
    /\ casWinner = [l \in Links |-> "none"]
    /\ links = [p \in Peers |-> 0]
    /\ linksByLabel = [b \in Labels |-> 0]
    /\ rpc = [l \in Links |-> "off"]
    /\ rerr = [l \in Links |-> 0]
    /\ wpc = [l \in Links |-> "off"]
    /\ wf = [l \in Links |-> 0]
    /\ werr = [l \in Links |-> 0]
    /\ overtaken = [l \in Links |-> 0]
    /\ sendQueuePrio = [l \in Links |-> << >>]
    /\ sendQueueRegl = [l \in Links |-> << >>]
    /\ nextFrame = 1
    /\ sendRet = "none"
    /\ pooled = [f \in Frames |-> 0]
    /\ upstream = << >>
    /\ mgrDone = FALSE

\* The state after NewPingPongHandler (ping_pong.go:35-40).
InitPing ==
    /\ clock = 0
    /\ nextPingID = 1
    /\ pst = [id \in PingIDs |-> "unused"]
    /\ active = [id \in PingIDs |-> 0]
    /\ expires = [id \in PingIDs |-> 0]
    /\ notifyCloses = [id \in PingIDs |-> 0]
    /\ hpc = [h \in Handlers |-> "idle"]
    /\ hid = [h \in Handlers |-> 1]
    /\ hmsg = [h \in Handlers |-> "pong"]
    /\ hstate = [h \in Handlers |-> 0]
    /\ firstResp = [id \in PingIDs |-> "none"]

\* The queues after newLinkBase (link.go:105-108); FlowControlIndicator is
\* followed on the link newLinkBase makes (1000 slots).
InitFlow ==
    /\ fcRegl = 0
    /\ fcPrio = 0
    /\ fcCap = ReglQueueSize
    /\ fcRet = "none"

\* The same for a regular queue of any of the capacities FlowCaps.
InitFlowAnyCap ==
    /\ fcRegl = 0
    /\ fcPrio = 0
    /\ fcCap \in FlowCaps
    /\ fcRet = "none"

\* A connection nothing was written to or read from.
InitStream ==
    /\ wire = << >>
    /\ rdPos = 0
    /\ rdRead = 0
    /\ rdLen = 0
    /\ rdPc = "idle"
    /\ rdRet = "none"

\* A connection the peer wrote up to MaxRecords records to, of any announced
\* lengths; nothing was read.
InitStreamAnyWire ==
    /\ wire \in UNION {[1..n -> RecLens] : n \in 1..MaxRecords}
    /\ rdPos = 0
    /\ rdRead = 0
    /\ rdLen = 0
    /\ rdPc = "idle"
    /\ rdRet = "none"

SetupNext(l) ==
    \/ handleSetupMessages_init(l)
    \/ handleSetupMessages_read(l)
    \/ handleSetupMessages_handle(l)
    \/ setupWorker_finalize(l)
    \/ assignSwitchLabel_derived(l)
    \/ assignSwitchLabel_short(l)
    \/ assignSwitchLabel_long(l)
    \/ setupWorker_AddLink(l)
    \/ setupWorker_fail(l)
    \/ handleSetup_fail(l)
    \/ setupWorker_return(l)
    \/ startWorkers(l)

CloseNext(l) ==
    \/ \E g \in Callers : Close_CAS(l, g)
    \/ \E g \in Callers : Close_log(l, g)
    \/ \E g \in Callers : Close_RemoveLink(l, g)
    \/ \E g \in Callers : Close_connClose(l, g)
    \/ \E hasLog \in BOOLEAN : ExtClose(l, hasLog)

ReaderNext(l) ==
    \/ reader_readFrame_ok(l)
    \/ reader_readFrame_netErr(l)
    \/ reader_netErr(l)
    \/ reader_readFrame_nonFatal(l)
    \/ reader_upstream(l)
    \/ reader_done(l)
    \/ reader_defer(l)
    \/ reader_exit(l)

WriterNext(l) ==
    \/ writer_select(l)
    \/ writer_select2_prio(l)
    \/ writer_select2_regl(l)
    \/ writer_select2_done(l)
    \/ writer_writeFrame_ok(l)
    \/ writer_writeFrame_netErr(l)
    \/ writer_netErr(l)
    \/ writer_writeFrame_nonFatal(l)
    \/ writer_defer(l)
    \/ writer_exit(l)

SendNext(l, fs) ==
    \/ \E f \in fs : SendPriority(l, f)
    \/ \E f \in fs : Send(l, f)

EnvNext ==
    \/ UpstreamRecv
    \/ MgrShutdown

vars == <<linkVars, pingVars, flowVars, streamVars>>

\* The whole life of one link: setup, workers, senders, Close.
Init == InitLinks /\ InitPing /\ InitFlow /\ InitStream

Next ==
    \/ \E l \in LifeLinks : SetupNext(l)
    \/ \E l \in LifeLinks : CloseNext(l)
    \/ \E l \in LifeLinks : ReaderNext(l)
    \/ \E l \in LifeLinks : WriterNext(l)
    \/ \E l \in LifeLinks : SendNext(l, LifeFrames)
    \/ EnvNext

Spec == Init /\ [][Next]_vars

\* One link, its senders and its writer: the send queues.
NextQueue ==
    \/ \E l \in LifeLinks : SetupNext(l)
    \/ \E l \in LifeLinks : CloseNext(l)
    \/ \E l \in LifeLinks : WriterNext(l)
    \/ \E l \in LifeLinks : SendNext(l, Frames)
    \/ MgrShutdown

SpecQueue == Init /\ [][NextQueue]_vars

\* Concurrent setups and closes of all links: the registry and the labels.
NextSetup ==
    \/ \E l \in Links : handleSetupMessages(l)
    \/ \E l \in Links : setupWorker_finalize(l)
    \/ \E l \in Links : assignSwitchLabel_derived(l)
    \/ \E l \in Links : assignSwitchLabel_short(l)
    \/ \E l \in Links : assignSwitchLabel_long(l)
    \/ \E l \in Links : setupWorker_AddLink(l)
    \/ \E l \in Links : setupWorker_fail(l)
    \/ \E l \in Links : handleSetup_fail(l)
    \/ \E l \in Links : setupWorker_return(l)
    \/ \E l \in Links : startWorkers(l)
    \/ \E l \in Links : CloseNext(l)

SpecSetup == Init /\ [][NextSetup]_vars

\* The ping/pong handler, its senders, its Handle calls and the clock.
NextPing ==
    \/ \E id \in PingIDs : PingSend_transmit(id)
    \/ \E id \in PingIDs : PingSend_setActive(id)
    \/ \E h \in Handlers, id \in PingIDs, msg \in Msgs : handleResponse_pluckActive(h, id, msg)
    \/ \E h \in Handlers : handleResponse_finish(h)
    \/ Clean
    \/ \E d \in TickSteps : Tick(d)

SpecPing == Init /\ [][NextPing]_vars

\* One link and its reader, with long runs of non-fatal read errors: the
\* consecutive-error counter up to its limit.
NextReader ==
    \/ \E l \in LifeLinks : SetupNext(l)
    \/ \E l \in LifeLinks : CloseNext(l)
    \/ \E l \in LifeLinks : ReaderNext(l)
    \/ \E l \in LifeLinks : reader_readFrame_nonFatalRun(l)
    \/ EnvNext

\* The reader goroutine is scheduled as long as it can run: none of its
\* steps after readFrame has failed waits for another goroutine (Close
\* returns at once when it loses the compare-and-swap).
SpecReader ==
    /\ Init /\ [][NextReader]_vars
    /\ \A l \in LifeLinks :
          WF_vars(reader_defer(l) \/ reader_exit(l)
                  \/ Close_CAS(l, "reader") \/ Close_log(l, "reader")
                  \/ Close_RemoveLink(l, "reader") \/ Close_connClose(l, "reader"))

\* The flow control indicator of a link whose queues fill and drain.
NextFlow ==
    \/ FlowControlIndicator_call
    \/ Flow_Send
    \/ Flow_SendPriority
    \/ Flow_writerTakesRegl
    \/ Flow_writerTakesPrio

InitAnyCap == InitLinks /\ InitPing /\ InitFlowAnyCap /\ InitStream

SpecFlow == InitAnyCap /\ [][NextFlow]_vars

\* The calls of readLengthAndData on one connection.
NextStream ==
    \/ readLengthAndData_call
    \/ readLengthAndData_length
    \/ readLengthAndData_drain
    \/ readLengthAndData_data
    \/ readLengthAndData_readErr

InitAnyWire == InitLinks /\ InitPing /\ InitFlow /\ InitStreamAnyWire

SpecStream == InitAnyWire /\ [][NextStream]_vars

(***************************************************************************)
(* Properties.                                                             *)
(***************************************************************************)
\* Number of times frame f occurs in queue q.
Count(q, f) == Cardinality({i \in 1..Len(q) : q[i] = f})

\* What a non-blocking offer of f to queue q (capacity cap) may leave in q
\* and in the other queue o: f once at the tail of q if q had a free slot,
\* or q as it was; q never holds more than cap frames; o as it was.
OfferedOrDropped(q, qn, o, on, f, cap) ==
    /\ on = o
    /\ \/ Len(q) < cap /\ qn = Append(q, f)
       \/ qn = q
    /\ Count(qn, f) + Count(on, f) <= 1

\* C1: Send and SendPriority never block and return nil, whatever the state
\* of the queues and of the writer; afterwards the frame is in the
\* destination queue exactly once, which takes a free slot, or in no queue,
\* and the other queue is unchanged.
C1_SendNeverBlocksNoDuplicate ==
    /\ [](\A l \in LifeLinks : (Published(l) /\ nextFrame \in Frames) =>
            /\ ENABLED Send(l, nextFrame)
            /\ ENABLED SendPriority(l, nextFrame))
    /\ [][\A l \in LifeLinks, f \in Frames :
            /\ Send(l, f) =>
                /\ sendRet' = "nil"
                /\ OfferedOrDropped(sendQueueRegl[l], sendQueueRegl'[l],
                                    sendQueuePrio[l], sendQueuePrio'[l], f, ReglQueueCap)
            /\ SendPriority(l, f) =>
                /\ sendRet' = "nil"
                /\ OfferedOrDropped(sendQueuePrio[l], sendQueuePrio'[l],
                                    sendQueueRegl[l], sendQueueRegl'[l], f, PrioQueueCap)]_vars

\* C1 witness: the regular queue is full of the first frames sent, the writer
\* has not run, and one more frame was handed to Send and is in no queue.
C1_DroppedOnFullQueue ==
    \E l \in LifeLinks :
        /\ wpc[l] = "off"
        /\ Len(sendQueueRegl[l]) = ReglQueueCap
        /\ sendQueuePrio[l] = << >>
        /\ nextFrame = ReglQueueCap + 2
        /\ sendRet = "nil"

\* Every Close call on the link has returned.
NoCloseRunning(l) == \A g \in Callers : cpc[l][g] = "idle"

\* C2 as claimed: once the link is closed and every Close call has returned,
\* exactly one call has run its log callback, exactly one has called
\* RemoveLink and the stream was closed exactly once.
C2_ExactlyOneLogCallback ==
    \A l \in Links : (closing[l] /\ NoCloseRunning(l)) =>
        logRuns[l] = 1 /\ removeCalls[l] = 1 /\ connCloses[l] = 1

\* C2 as amended: at no time has more than one call run a log callback,
\* called RemoveLink or closed the stream; once the link is closed and every
\* Close call has returned, RemoveLink and conn.Close have run exactly once,
\* and the log callback has run exactly once if the call that won the
\* compare-and-swap was given one, and not at all if it was given nil.
C2_CloseTakesEffectOnce ==
    \A l \in Links :
        /\ logRuns[l] <= 1 /\ removeCalls[l] <= 1 /\ connCloses[l] <= 1
        /\ (closing[l] /\ NoCloseRunning(l)) =>
            /\ removeCalls[l] = 1
            /\ connCloses[l] = 1
            /\ logRuns[l] = (IF casWinner[l] = "func" THEN 1 ELSE 0)

\* C2 witness: the reader, the writer (each with its deferred Close) and an
\* external caller have all called Close, and all calls have returned.
C2_AllCallersClosed ==
    \E l \in LifeLinks :
        /\ rpc[l] = "done" /\ wpc[l] = "done" /\ extCloses[l] = MaxExtCloses
        /\ NoCloseRunning(l)
        /\ logRuns[l] = 1

\* The link was set up successfully and is not closing.
Live(l) == spc[l] \in {"start", "done_ok"} /\ ~closing[l]

\* C3: no two links that are live at the same time hold the same non-zero
\* switch label.
C3_LiveLabelsUnique ==
    \A l1 \in Links, l2 \in Links :
        (l1 # l2 /\ Live(l1) /\ Live(l2) /\ switchLabel[l1] # 0) =>
            switchLabel[l1] # switchLabel[l2]

\* C3 witness: two setups for different peers picked the same label; one is
\* live with it and AddLink rejected the other.
C3_LabelRaceRejected ==
    \E l1 \in Links, l2 \in Links :
        /\ l1 # l2 /\ Live(l1)
        /\ switchLabel[l1] # 0 /\ switchLabel[l2] = switchLabel[l1]
        /\ peer[l1] # peer[l2]
        /\ setupErr[l2] = "add link" /\ spc[l2] = "done_fail"

\* The writer takes a frame from a queue in this step.
WriterTakes(l) == wf[l] = 0 /\ wf'[l] # 0

\* C4 as claimed: whenever the writer takes its next frame while the priority
\* queue is non-empty, it takes the head of the priority queue.
C4_StrictPriority ==
    [][\A l \in LifeLinks :
        (WriterTakes(l) /\ sendQueuePrio[l] # << >>) => wf'[l] = Head(sendQueuePrio[l])]_vars

\* What the double select does guarantee: when the writer's non-blocking
\* check of the priority queue finds a frame, it takes that frame; it takes a
\* regular frame only in the blocking select it enters after that check
\* found the priority queue empty; so at most one regular frame is taken
\* while a priority frame waits.
PriorityAtNonBlockingCheck ==
    /\ [][\A l \in LifeLinks :
            /\ (wpc[l] = "select" /\ wpc'[l] # "select" /\ sendQueuePrio[l] # << >>) =>
                    wf'[l] = Head(sendQueuePrio[l])
            /\ (WriterTakes(l) /\ sendQueuePrio[l] # << >>
                    /\ wf'[l] # Head(sendQueuePrio[l])) =>
                    /\ wpc[l] = "select2"
                    /\ wf'[l] = Head(sendQueueRegl[l])]_vars
    /\ [](\A l \in LifeLinks : overtaken[l] <= 1)

\* The writer holds a regular frame it took while a priority frame was
\* waiting.
RegularTakenBeforePriority ==
    \E l \in LifeLinks :
        /\ overtaken[l] = 1
        /\ wpc[l] = "write"
        /\ sendQueuePrio[l] # << >>

\* C5 as claimed: the closing flag never goes back to false, and while it is
\* true no step adds a frame to either send queue.
C5_NoFrameAcceptedWhenClosing ==
    [][\A l \in LifeLinks : closing[l] =>
        /\ closing'[l]
        /\ Len(sendQueuePrio'[l]) <= Len(sendQueuePrio[l])
        /\ Len(sendQueueRegl'[l]) <= Len(sendQueueRegl[l])]_vars

\* The steps the writer goroutine can take by itself (not the case of the
\* manager-wide done signal), its Close calls included.
WriterOwnStep(l) ==
    \/ writer_select(l)
    \/ writer_select2_prio(l)
    \/ writer_select2_regl(l)
    \/ writer_writeFrame_ok(l)
    \/ writer_writeFrame_netErr(l)
    \/ writer_netErr(l)
    \/ writer_writeFrame_nonFatal(l)
    \/ writer_defer(l)
    \/ writer_exit(l)
    \/ Close_CAS(l, "writer") \/ Close_log(l, "writer")
    \/ Close_RemoveLink(l, "writer") \/ Close_connClose(l, "writer")

\* The steps the reader goroutine can take by itself, its Close calls
\* included, and the step of the router that frees a slot upstream.
ReaderOwnStep(l) ==
    \/ reader_readFrame_ok(l)
    \/ reader_readFrame_netErr(l)
    \/ reader_netErr(l)
    \/ reader_readFrame_nonFatal(l)
    \/ reader_readFrame_nonFatalRun(l)
    \/ reader_upstream(l)
    \/ reader_defer(l)
    \/ reader_exit(l)
    \/ Close_CAS(l, "reader") \/ Close_log(l, "reader")
    \/ Close_RemoveLink(l, "reader") \/ Close_connClose(l, "reader")
    \/ UpstreamRecv

\* C6 as claimed: after Close (flag set, stream closed) on a link with
\* running workers, neither worker is left without a step that leads it to
\* its end: each has terminated or can take a step without the done signal.
C6_WorkersTerminateAfterClose ==
    \A l \in LifeLinks : (closing[l] /\ connCloses[l] > 0 /\ wpc[l] # "off") =>
        /\ rpc[l] = "done" \/ ENABLED ReaderOwnStep(l)
        /\ wpc[l] = "done" \/ ENABLED WriterOwnStep(l)

\* C7 as claimed: no registry lookup, by peer IP or by switch label, yields
\* a link whose closing flag is true.
C7_NoClosingLinkInLookups ==
    \A l \in Links : closing[l] =>
        /\ \A p \in Peers : GetLink(p) # l
        /\ \A b \in Labels : GetLinkByLabel(b) # l

\* C8: a completion signal is closed at most once; a Clean call removes the
\* entries whose expiry has passed and leaves the others in place.
C8_SignalOnceAndCleanEvictsExpired ==
    [][/\ \A st \in PingIDs : notifyCloses'[st] <= 1
       /\ Clean => \A id \in PingIDs :
            active'[id] = (IF active[id] # 0 /\ clock > expires[active[id]]
                           THEN 0 ELSE active[id])]_vars

\* A Handle call for ping id is between pluckActive and its return.
InFlight(id) == \E h \in Handlers : hpc[h] = "plucked" /\ hid[h] = id

\* C8 witness: Clean evicted one ping after its expiry (no response to it was
\* ever taken up) and not the other, which had not expired; that one was
\* answered (signal closed once) and a further response to it found no state.
C8_DuplicateAndEviction ==
    \E a \in PingIDs, b \in PingIDs :
        /\ pst[a] = "registered" /\ firstResp[a] = "none" /\ active[a] = 0
        /\ notifyCloses[a] = 0 /\ clock > expires[a]
        /\ pst[b] = "registered" /\ notifyCloses[b] = 1 /\ clock <= expires[b]
        /\ \E h \in Handlers : hpc[h] = "plucked" /\ hid[h] = b /\ hstate[h] = 0

\* C9 as claimed: when Send has succeeded and the first response to the ping
\* was a valid pong taken up before the expiry, then once no Handle call for
\* the ping is running the completion signal is closed.
C9_PongClosesSignal ==
    \A id \in PingIDs :
        (pst[id] = "registered" /\ firstResp[id] = "pong" /\ ~InFlight(id))
            => notifyCloses[id] = 1

\* C10: a link whose setup failed has no workers started and is not in the
\* registry; when the failed setup has returned, the link is closed.
C10_FailedSetupClosesLink ==
    \A l \in Links : setupErr[l] # "none" =>
        /\ rpc[l] = "off" /\ wpc[l] = "off"
        /\ ~Registered(l)
        /\ spc[l] = "done_fail" => (closing[l] /\ connCloses[l] = 1)

\* C10 witness: AddLink rejected a link while the other is live; the failed
\* setup has returned.
C10_AddLinkRejected ==
    \E l1 \in Links, l2 \in Links :
        /\ Live(l1) /\ Registered(l1)
        /\ setupErr[l2] = "add link" /\ spc[l2] = "done_fail"
        /\ closing[l2] /\ connCloses[l2] = 1 /\ rpc[l2] = "off"

\* The errors handleSetupMessages returns (link.go:564-599).
HandshakeErrors ==
    {"create peering request", "write peering request", "read peering msg",
     "handle peering msg", "write peering msg response", "too much setup"}

\* handleSetupMessages is running / has returned / has returned no error.
InHandshake(l) == spc[l] \in {"init", "read", "handle"}
HandshakeOver(l) == ~InHandshake(l)
HandshakeSucceeded(l) == HandshakeOver(l) /\ setupErr[l] \notin HandshakeErrors

\* C11: whenever the reader or the writer of a link is running, its
\* encryption session is set, so that readFrame unseals and writeFrame seals;
\* the direct (unsealed) way is the one handleSetupMessages uses.
C11_WorkersUseSealedPath ==
    \A l \in Links :
        /\ (rpc[l] # "off" \/ wpc[l] # "off") => SealedPath(l)
        /\ InHandshake(l) => ~SealedPath(l)

\* C11 witness: after the handshake the reader has read a frame and the
\* writer is writing one, both on the sealed path.
C11_WorkersBusySealed ==
    \E l \in LifeLinks : rpc[l] = "deliver" /\ wpc[l] = "write" /\ SealedPath(l)

\* C12 as claimed: at most three messages are handled; the handshake
\* succeeds exactly when state.handle returned no response and no error for
\* one of them; when the third handled message yields a response too, setup
\* fails with "too much setup".
C12_ThreeResponsesTooMuchSetup ==
    \A l \in Links :
        /\ setupI[l] \in 0..3
        /\ HandshakeOver(l) =>
                (HandshakeSucceeded(l) <=> (handleRes[l] = "done" /\ setupI[l] \in 1..3))
        /\ (HandshakeOver(l) /\ setupI[l] = 3 /\ handleRes[l] = "response") =>
                setupErr[l] = "too much setup"

\* C12 as amended: as claimed, but when the third handled message yields a
\* response, setup fails with "too much setup" if that response is written
\* and with the write error if its write fails; "too much setup" is returned
\* in no other case.
C12_AtMostThreeSetupMessages ==
    \A l \in Links :
        /\ setupI[l] \in 0..3
        /\ HandshakeOver(l) =>
                (HandshakeSucceeded(l) <=> (handleRes[l] = "done" /\ setupI[l] \in 1..3))
        /\ (HandshakeOver(l) /\ setupI[l] = 3 /\ handleRes[l] = "response") =>
                setupErr[l] \in {"too much setup", "write peering msg response"}
        /\ setupErr[l] = "too much setup" => (setupI[l] = 3 /\ handleRes[l] = "response")

\* C12 witness: three messages were handled, each yielded a response, and the
\* failed setup has returned "too much setup".
C12_TooMuchSetupReached ==
    \E l \in LifeLinks :
        /\ setupErr[l] = "too much setup" /\ setupI[l] = 3 /\ handleRes[l] = "response"
        /\ spc[l] = "done_fail"

\* The frames of q are in the order in which they were handed to Send /
\* SendPriority (frames are numbered in that order).
InAcceptanceOrder(q) == \A i \in 1..Len(q), j \in 1..Len(q) : i < j => q[i] < q[j]

FlagForRatio(regl, cap) ==
    IF regl * 100 >= 70 * cap THEN "DecreaseFlow"
    ELSE IF regl * 100 >= 30 * cap THEN "HoldFlow"
    ELSE "IncreaseFlow"

\* C14: for every capacity and fill level of the regular queue and every
\* number of frames in the priority queue, FlowControlIndicator returns the
\* flag the fill ratio of the regular queue calls for.
C14_FlagFollowsRegularFillRatio ==
    fcRet # "none" => fcRet = FlagForRatio(fcRegl, fcCap)

\* C14 witness: the regular queue is filled to just under 70% (HoldFlow),
\* and the priority queue is not empty.
C14_HoldJustBelowSeventy ==
    /\ fcCap = 10 /\ fcRegl = 6 /\ fcPrio = MaxPrioFill
    /\ fcRet = "HoldFlow"

\* C15 as claimed: on a 1000-slot regular queue: DecreaseFlow with 700
\* frames, HoldFlow with 200 frames, IncreaseFlow with 10 frames.
C15_FlagsAt700And200And10 ==
    (fcCap = ReglQueueSize /\ fcRet # "none") =>
        /\ fcRegl = 700 => fcRet = "DecreaseFlow"
        /\ fcRegl = 200 => fcRet = "HoldFlow"
        /\ fcRegl = 10 => fcRet = "IncreaseFlow"

\* C15 as amended: on a 1000-slot regular queue: DecreaseFlow with 700
\* frames, IncreaseFlow with 200 frames (HoldFlow is returned from 300 to 699
\* frames), IncreaseFlow with 10 frames.
C15_IncreaseFlowAt200 ==
    (fcCap = ReglQueueSize /\ fcRet # "none") =>
        /\ fcRegl = 700 => fcRet = "DecreaseFlow"
        /\ fcRegl = 200 => fcRet = "IncreaseFlow"
        /\ fcRegl \in 300..699 => fcRet = "HoldFlow"
        /\ fcRegl = 10 => fcRet = "IncreaseFlow"

\* C15 witness: the indicator was called with 200 frames in the 1000-slot
\* queue.
C15_CalledAt200 ==
    fcCap = ReglQueueSize /\ fcRegl = 200 /\ fcRet = "IncreaseFlow"

\* The reader has left its loop: its own Close call is made, or the deferred
\* one, or it has returned.
ReaderLeft(l) == rpc[l] \in {"closing", "deferred", "done"}

\* C16: a non-fatal read error increments the reader's counter and, below
\* 100, calls no Close and leaves the reader reading; a frame read resets the
\* counter to zero; the error that makes the counter 100 has the reader call
\* Close and leave its loop, and no other counter value does; a reader that
\* has left its loop always has a next step until it has returned, never
\* reads again, and after the 100th error it does return.
C16_ClosesAtHundredthError ==
    /\ [](\A l \in LifeLinks :
            /\ rerr[l] <= MaxConsecutiveErrors
            /\ rpc[l] \in {"closing", "deferred"} => ENABLED ReaderOwnStep(l))
    /\ [][\A l \in LifeLinks :
            /\ rerr'[l] # rerr[l] => rerr'[l] = 0 \/ rerr'[l] > rerr[l]
            /\ (rerr'[l] > rerr[l] /\ rerr'[l] < 100) =>
                    /\ rpc'[l] = "read"
                    /\ cpc'[l]["reader"] = "idle"
                    /\ closing'[l] = closing[l]
            /\ (rerr'[l] > rerr[l] /\ rerr'[l] = 100) =>
                    /\ rerr[l] = 99
                    /\ rpc'[l] = "closing"
                    /\ cpc'[l]["reader"] = "cas"
            /\ (rpc[l] = "read" /\ rpc'[l] = "closing" /\ rerr'[l] # rerr[l]) =>
                    rerr'[l] = 100
            /\ (rpc[l] = "read" /\ rpc'[l] = "deliver") => rerr'[l] = 0
            /\ ReaderLeft(l) => (ReaderLeft(l))'
       ]_vars
    /\ \A l \in LifeLinks : (rerr[l] = 100) ~> (rpc[l] = "done")

\* C16 witness: the reader has returned after its 100th consecutive non-fatal
\* error, and the link is closed.
C16_ReaderReturnedAfterHundred ==
    \E l \in LifeLinks :
        rerr[l] = 100 /\ rpc[l] = "done" /\ closing[l] /\ connCloses[l] = 1

\* The writer has left its loop.
WriterLeft(l) == wpc[l] \in {"closing", "deferred", "done"}

\* C17: a reader whose readFrame failed with a network error, and a writer
\* whose writeFrame did, next calls Close and leaves its loop, whatever its
\* error counter is and without changing it; a worker that has left its loop
\* never reads or writes again; once its Close call has returned the link is
\* closing, and once the worker has returned and no Close call is running
\* the link is out of the registry and the stream is closed.
C17_NetworkErrorIsTerminal ==
    /\ [](\A l \in LifeLinks :
            /\ rpc[l] = "neterr" => ENABLED reader_netErr(l)
            /\ wpc[l] = "neterr" => ENABLED writer_netErr(l)
            /\ (ReaderLeft(l) /\ cpc[l]["reader"] = "idle") => closing[l]
            /\ (WriterLeft(l) /\ cpc[l]["writer"] = "idle") => closing[l]
            /\ ((rpc[l] = "done" \/ wpc[l] = "done") /\ NoCloseRunning(l)) =>
                    /\ ~Registered(l)
                    /\ removeCalls[l] = 1
                    /\ connCloses[l] = 1)
    /\ [][\A l \in LifeLinks :
            /\ (rpc[l] = "neterr" /\ <<rpc[l], rerr[l]>>' # <<rpc[l], rerr[l]>>) =>
                    /\ rpc'[l] = "closing"
                    /\ cpc'[l]["reader"] = "cas"
                    /\ rerr'[l] = rerr[l]
            /\ (wpc[l] = "neterr" /\ <<wpc[l], werr[l], wf[l]>>' # <<wpc[l], werr[l], wf[l]>>) =>
                    /\ wpc'[l] = "closing"
                    /\ cpc'[l]["writer"] = "cas"
                    /\ werr'[l] = werr[l]
                    /\ wf'[l] = 0
            /\ ReaderLeft(l) => (ReaderLeft(l))'
            /\ WriterLeft(l) => (WriterLeft(l))'
       ]_vars

\* C17 witness: without a shutdown of the manager, reader and writer have both
\* returned after a network error, which found the reader's error counter
\* above zero; the link is out of the registry.
C17_WorkersLeftOnNetworkError ==
    \E l \in LifeLinks :
        /\ ~mgrDone
        /\ rpc[l] = "done" /\ rerr[l] > 0
        /\ wpc[l] = "done"
        /\ NoCloseRunning(l) /\ ~Registered(l)

\* The offset the current (or last) call of readLengthAndData started at.
CallStart == rdPos - rdRead

\* The k-th record starts where the current (or last) call started.
CallStartsRecord(k) == k \in 1..Len(wire) /\ WireOffset(k - 1) = CallStart

\* C18: a call of readLengthAndData that starts at the first byte of a
\* record announcing more bytes than the slice holds never consumes more than
\* the announced bytes, returns only "frame too big" or a network error, and
\* when it returns "frame too big" it has consumed exactly the announced bytes
\* and the stream is at the first byte of the following record; whatever
\* sizes conn.Read returns.
C18_TooBigRecordDrainedExactly ==
    \A k \in 1..MaxRecords :
        (CallStartsRecord(k) /\ wire[k] > frameSize) =>
            /\ rdRead <= wire[k]
            /\ rdRead >= 2 => rdLen = wire[k]
            /\ rdPc # "data"
            /\ (rdPc = "idle" /\ rdRet # "none") =>
                    rdRet \in {"frame too big", "neterr"}
            /\ rdRet = "frame too big" =>
                    /\ rdRead = wire[k]
                    /\ rdPos = WireOffset(k)

\* C18 witness: the second record is too big for the slice and was drained;
\* the stream is at its end.
C18_SecondRecordDrained ==
    /\ Len(wire) = 2 /\ wire[2] > frameSize
    /\ CallStartsRecord(2)
    /\ rdPc = "idle" /\ rdRet = "frame too big"
    /\ rdPos = WireOffset(2)

\* C19: a handleResponse call whose ping id has no entry in h.active leaves
\* the map as it is, closes no completion signal and returns "no state"; a
\* call whose ping id has an entry takes that entry out of the map and leaves
\* every other entry in place.
C19_NoStateAndExactRemoval ==
    [][\A h \in Handlers :
        /\ (hpc[h] = "idle" /\ hpc'[h] = "plucked") =>
              LET id == hid'[h] IN
              IF active[id] = 0
              THEN hstate'[h] = 0 /\ active' = active
              ELSE /\ hstate'[h] = active[id]
                   /\ active'[id] = 0
                   /\ \A other \in PingIDs \ {id} : active'[other] = active[other]
        /\ (hpc[h] = "plucked" /\ hpc'[h] = "idle" /\ hstate[h] = 0) =>
              /\ handleResponseResult(hstate[h], hmsg[h]) = "no state"
              /\ notifyCloses' = notifyCloses
              /\ active' = active
      ]_vars

\* C19 witness: one Handle call has taken an entry out of the map, another
\* call has found no entry, and the entry of another ping is still in the map.
C19_PluckedAndNoState ==
    \E h1 \in Handlers, h2 \in Handlers, b \in PingIDs :
        /\ hpc[h1] = "plucked" /\ hstate[h1] = 0
        /\ hpc[h2] = "plucked" /\ hstate[h2] # 0
        /\ active[b] # 0 /\ b # hstate[h2]

\* Frame f is in one of the send queues of link l.
Queued(l, f) == Count(sendQueuePrio[l], f) + Count(sendQueueRegl[l], f) > 0

\* This step is a Send or SendPriority call that drops frame f: the frame is
\* handed over and is in no queue afterwards.
SendDrops(l, f) == nextFrame = f /\ nextFrame' = f + 1 /\ ~(Queued(l, f))'

\* This step is the return of writeFrame for frame f.
WriterProcessed(l, f) == wf[l] = f /\ wf'[l] = 0

\* What holds of the writer's side: no frame is returned to the pool twice,
\* a frame is returned exactly when writeFrame returns for it, with or
\* without an error, and at no other step.
WriterReturnsFrameOnce ==
    /\ [](\A f \in Frames : pooled[f] <= 1)
    /\ [][\A l \in LifeLinks, f \in Frames :
            /\ WriterProcessed(l, f) => (pooled[f] = 0 /\ pooled'[f] = 1)
            /\ pooled'[f] # pooled[f] => WriterProcessed(l, f)]_vars

\* C20 as claimed: no frame handed to Send or SendPriority is returned to the
\* pool more than once; it is returned exactly once when writeFrame returns
\* for it, with or without an error, and exactly once when Send or
\* SendPriority drops it on a full queue.
C20_FrameReturnedExactlyOnce ==
    /\ [](\A f \in Frames : pooled[f] <= 1)
    /\ [][\A l \in LifeLinks, f \in Frames :
            /\ WriterProcessed(l, f) => (pooled[f] = 0 /\ pooled'[f] = 1)
            /\ SendDrops(l, f) => (pooled[f] = 0 /\ pooled'[f] = 1)]_vars

\* Two link setups that have reached assignSwitchLabel for different peers
\* whose derived switch labels are equal (and usable).
DerivedLabelsCollide(l1, l2) ==
    /\ l1 # l2
    /\ encSession[l1] /\ encSession[l2]
    /\ peer[l1] \in Peers /\ peer[l2] \in Peers /\ peer[l1] # peer[l2]
    /\ DeriveSwitchLabelFromIP(peer[l1]) # 0
    /\ DeriveSwitchLabelFromIP(peer[l1]) = DeriveSwitchLabelFromIP(peer[l2])

\* C21 as claimed: of two setups for peers whose derived labels are equal, a
\* setup that fails fails with "no suitable switch label found" and for no
\* other reason; the two links are never live with the same label; and when
\* both are live exactly one holds the derived label.
C21_CollidingSetupsRetryOrExhaust ==
    \A l1 \in Links, l2 \in Links : DerivedLabelsCollide(l1, l2) =>
        /\ setupErr[l2] \in {"none", "no suitable switch label found"}
        /\ ~(Live(l1) /\ Live(l2) /\ switchLabel[l1] = switchLabel[l2])
        /\ (Live(l1) /\ Live(l2)) =>
                (switchLabel[l1] = DeriveSwitchLabelFromIP(peer[l1]))
                    # (switchLabel[l2] = DeriveSwitchLabelFromIP(peer[l2]))

\* What holds of two such setups: everything claimed but the reason of the
\* failure, which can also be the registry's rejection of the second AddLink.
CollidingSetupsNeverShareLabel ==
    \A l1 \in Links, l2 \in Links : DerivedLabelsCollide(l1, l2) =>
        /\ setupErr[l2] \in {"none", "no suitable switch label found", "add link"}
        /\ ~(Live(l1) /\ Live(l2) /\ switchLabel[l1] = switchLabel[l2])
        /\ (Live(l1) /\ Live(l2)) =>
                (switchLabel[l1] = DeriveSwitchLabelFromIP(peer[l1]))
                    # (switchLabel[l2] = DeriveSwitchLabelFromIP(peer[l2]))

\* C22 as claimed: when a call of readLengthAndData that starts at the first
\* byte of a record announcing 3 bytes or less has returned "invalid data
\* length", it has consumed exactly the bytes the record takes and the stream
\* is at the first byte of the following record.
C22_AlignedAfterInvalidLength ==
    \A k \in 1..MaxRecords :
        (CallStartsRecord(k) /\ rdPc = "idle" /\ rdRet = "invalid data length") =>
            /\ wire[k] <= 3
            /\ rdRead = RecordExtent(wire[k])
            /\ rdPos = WireOffset(k)

\* What holds after "invalid data length": the two length bytes were
\* consumed and nothing else, which is the whole record only if it announced
\* 2 bytes or less.
InvalidLengthConsumesLengthBytes ==
    \A k \in 1..MaxRecords :
        (CallStartsRecord(k) /\ rdPc = "idle" /\ rdRet = "invalid data length") =>
            /\ wire[k] <= 3
            /\ rdRead = 2
            /\ wire[k] <= 2 => rdPos = WireOffset(k)
            /\ wire[k] = 3 => rdPos = WireOffset(k) - 1

\* C23 as claimed: a registered ping state that is no longer in h.active,
\* and that no running Handle call holds, had its completion signal closed
\* by a response or has passed its expiry (and was evicted by Clean); so a
\* response that is not a valid pong leaves the state where a later valid
\* response finds it.
C23_StateLeavesByPongOrEviction ==
    \A id \in PingIDs :
        (pst[id] = "registered" /\ active[id] = 0 /\ ~InFlight(id)) =>
            notifyCloses[id] = 1 \/ Expired(clock, expires[id])

====
